---- MODULE Spec2Model ----
(***************************************************************************)
(* Model of the driver map component (components/MapViewer.tsx, the first  *)
(* MapViewer in the file): position tracking with the high/low accuracy    *)
(* fallback, the screen wake lock, and route drawing through the OSRM      *)
(* routing service with fetchWithRetry.                                    *)
(*                                                                         *)
(* The browser is single-threaded: every handler (a click, a geolocation   *)
(* callback, a timer, the continuation of an await) runs to completion, so *)
(* each is one action.  Browser-side facts the code cannot see (which      *)
(* watches and timers are registered, which wake locks are held) are       *)
(* variables of their own, next to the refs the component keeps.           *)
(*                                                                         *)
(* The turn-by-turn instruction (nearest step, urgency tiers) is modelled  *)
(* from the specification: no source file at hand computes it.             *)
(*                                                                         *)
(* Around the map: the pins and the delivery history of App.tsx with the   *)
(* import panel and the photo step, the cart and the order flow of the     *)
(* storefront (unnamed/part_001), and the print server (unnamed/part_006). *)
(* Each has its own variables and its own specification.                   *)
(***************************************************************************)
EXTENDS Integers, Sequences, FiniteSets, TLC

\* ---------------------------------------------------------------- bounds
MaxSessions == 2     \* how many times tracking may be started
MaxInFlight == 1     \* drawRoute calls in flight at once
MaxRouteSessions == 1 \* how many times tracking may be started next to them
MaxInFlightAll == 1  \* the same, with every tracking handler interleaved
MaxConcurrent == 2   \* the same, with tracking left off
MaxSteps == 3        \* steps of a route, for the navigation instruction
MaxReroutes == 1     \* background route recomputations in flight at once
MaxPins == 2         \* the most active pins at once, with deliveries
MaxImported == 3     \* the most active pins at once, with imports and deletions alone
MaxAdd == 2          \* the most units one add-to-cart carries
MaxQuantity == 3     \* the most units of a cart line
MaxLines == 2        \* the most lines of the cart
MaxOrders == 2       \* the most presses of the confirm button
MaxRequests == 3     \* the most POST /print requests
MaxHistory == 2      \* the most deliveries of a behaviour that starts with none

\* ------------------------------------------------------------- constants
NULL == 0                      \* a ref holding null
SHOP_LOCATION == 1             \* the shop, as a position
Positions == {2, 3}            \* the positions the device reports

PERMISSION_DENIED == 1         \* GeolocationPositionError.code
POSITION_UNAVAILABLE == 2
TIMEOUT == 3
ErrorCodes == {PERMISSION_DENIED, POSITION_UNAVAILABLE, TIMEOUT}

VARIABLES
  mounted,            \* the component is mounted
  httpsOk,            \* protocol is https: or the host is local
  hasGeolocation,     \* 'geolocation' in navigator
  hasWakeLock,        \* 'wakeLock' in navigator
  mapInstanceRef,     \* TRUE when the Leaflet map exists
  isTracking,         \* React state isTracking
  userMarkerRef,      \* NULL or the position of the user marker
  accuracyCircleRef,  \* TRUE when the accuracy circle exists
  watchIdRef,         \* NULL or a watch id
  watches,            \* browser: the registered watchPosition subscriptions
  fixes,              \* browser: ids of watches that have delivered a position
  fallbackTimeoutRef, \* NULL or a timer id
  timers,             \* browser: ids of the pending setTimeout timers
  wakeLockRef,        \* NULL or a wake lock sentinel id
  wakeLocks,          \* browser: ids of the wake locks currently held
  wakeReqs,           \* number of wakeLock.request() promises not settled
  kickstarts,         \* number of kickstart getCurrentPosition calls pending
  sessions,           \* how many times tracking has been started
  routes,             \* the drawRoute calls in flight: call id -> its locals
  routeLayerRef,      \* NULL or the id of the route layer the ref holds
  mapLayers,          \* the route layers on the map: [id, dest]
  navSteps,           \* navigation: the maneuver locations of the active route
  navPos,             \* navigation: NULL or the position handled last
  navInstruction,     \* navigation: the instruction on display
  navLastCalc,        \* navigation: NULL or lastRouteCalcPosition
  navReroutes,        \* navigation: origins of the recomputations in flight
  points,             \* App: the active pins, in order
  history,            \* App: the delivery records, in order
  finishingPoint,     \* App: << >> for null, or <<the pin whose photo step is open>>
  sheetReqs,          \* App: the requests of updateGoogleSheetStatus not settled
  cart,               \* storefront: the cart lines, in order
  isCartOpen,         \* storefront: the cart sheet is shown
  selectedItem,       \* storefront: << >> for null, or <<the item of the open modal>>
  tempQuantity,       \* storefront: the quantity chosen in the modal
  tempNote,           \* storefront: the note typed in the modal
  tempSelectedOptions, \* storefront: the options chosen, as the object's entries in key order
  loading,            \* storefront: the menu and the configuration are not loaded yet
  sheetConfig,        \* storefront: the configuration loaded from the sheet
  shopStatus,         \* storefront: the isOpen of the shopStatus state
  isPrinterOnline,    \* storefront: the print server answered the health check
  showConfirmModal,   \* storefront: the confirmation modal is shown
  isSavingOrder,      \* storefront: the confirm button is disabled
  orders,             \* storefront: the calls of handleOpenLine, by number
  closeTimers,        \* storefront: pending timers that hide the modal
  printJobs,          \* print server: the POST /print requests, by number
  serverUp,           \* print server: the process is running
  toast,              \* the last message given to onShowToast
  last                \* the handler that ran last, and what it saw

trackVars == <<isTracking, userMarkerRef, accuracyCircleRef, watchIdRef, watches,
               fixes, fallbackTimeoutRef, timers, wakeLockRef, wakeLocks, wakeReqs,
               kickstarts, sessions>>
envVars == <<httpsOk, hasGeolocation, hasWakeLock, mapInstanceRef>>
routeVars == <<routes, routeLayerRef, mapLayers>>
navVars == <<navSteps, navPos, navInstruction, navLastCalc, navReroutes>>
appVars == <<points, history, finishingPoint, sheetReqs>>
cartVars == <<cart, isCartOpen, selectedItem, tempQuantity, tempNote, tempSelectedOptions>>
orderVars == <<loading, sheetConfig, shopStatus, isPrinterOnline, showConfirmModal,
               isSavingOrder, orders, closeTimers>>
printVars == <<printJobs, serverUp>>
otherVars == <<appVars, cartVars, orderVars, printVars>>
mapViewerVars == <<mounted, envVars, trackVars, routeVars>>
\* What the handlers of the pin app, of the storefront and of the print server
\* leave alone.
outsideApp == <<mapViewerVars, navVars, cartVars, orderVars, printVars>>
outsideCart == <<mapViewerVars, navVars, appVars, orderVars, printVars, toast, isCartOpen>>
outsideOrder == <<mapViewerVars, navVars, appVars, isCartOpen, selectedItem, tempQuantity,
                  tempNote, tempSelectedOptions, printVars, toast>>
outsidePrint == <<mapViewerVars, navVars, appVars, cartVars, orderVars, toast>>
vars == <<mounted, envVars, trackVars, routeVars, navVars, otherVars, toast, last>>

\* The AppConfig of a sheet that configures nothing.
NoTime == << >>
\* Times of the day, <<hours, minutes>>, and weekdays (getDay()): the
\* readings of new Date().
Times == {<<0, 0>>, <<0, 30>>, <<1, 0>>}
Days == {0, 1}
Clock == [day : Days, time : Times]
NoConfig == [isManualClose |-> FALSE, schedules |-> << >>, openTime |-> NoTime,
             closeTime |-> NoTime]

Toast(type, msg) == [type |-> type, msg |-> msg]
Event(op, a, b, c) == [op |-> op, a |-> a, b |-> b, c |-> c]
Bit(x) == IF x THEN 1 ELSE 0

\* An id the browser has not handed out among `used`.
FreshId(used) == CHOOSE n \in 1..(Cardinality(used) + 1) : n \notin used

WatchIds == {w.id : w \in watches}

InitMapViewer ==
  /\ mounted = TRUE
  /\ httpsOk \in BOOLEAN
  /\ hasGeolocation \in BOOLEAN
  /\ hasWakeLock \in BOOLEAN
  /\ mapInstanceRef \in BOOLEAN
  /\ isTracking = FALSE
  /\ userMarkerRef = NULL
  /\ accuracyCircleRef = FALSE
  /\ watchIdRef = NULL
  /\ watches = {}
  /\ fixes = {}
  /\ fallbackTimeoutRef = NULL
  /\ timers = {}
  /\ wakeLockRef = NULL
  /\ wakeLocks = {}
  /\ wakeReqs = 0
  /\ kickstarts = 0
  /\ sessions = 0
  /\ routes = [i \in {} |-> 0]
  /\ routeLayerRef = NULL
  /\ mapLayers = {}
  /\ navSteps = << >>
  /\ navPos = NULL
  /\ navInstruction = [kind |-> "none"]
  /\ navLastCalc = NULL
  /\ navReroutes = << >>
  /\ toast = Toast("none", "none")
  /\ last = Event("init", 0, 0, 0)

\* App on a device that has stored nothing yet.
InitApp ==
  /\ points = << >>
  /\ history = << >>
  /\ finishingPoint = << >>
  /\ sheetReqs = 0

\* The storefront as it mounts: an empty cart, no modal, and the shop taken
\* for open until the sheet is loaded.
InitCart ==
  /\ cart = << >>
  /\ isCartOpen = FALSE
  /\ selectedItem = << >>
  /\ tempQuantity = 1
  /\ tempNote = ""
  /\ tempSelectedOptions = << >>

InitOrder ==
  /\ loading = TRUE
  /\ sheetConfig = NoConfig
  /\ shopStatus = TRUE
  /\ isPrinterOnline = FALSE
  /\ showConfirmModal = FALSE
  /\ isSavingOrder = FALSE
  /\ orders = << >>
  /\ closeTimers = 0

InitStore ==
  /\ InitCart
  /\ InitOrder

\* The print server with no request received.
InitPrint ==
  /\ printJobs = << >>
  /\ serverUp = TRUE

Init ==
  /\ InitMapViewer
  /\ InitApp
  /\ InitStore
  /\ InitPrint

\* ------------------------------------------------------------- wake lock

\* requestWakeLock up to its await: the request promise is pending.
RequestWakeLock(n) == IF hasWakeLock THEN n + 1 ELSE n

\* releaseWakeLock: release() of the sentinel the ref holds, then the ref is
\* nulled.  release() returns a promise that is already resolved, so the
\* continuation runs as a microtask of the same task, before any other handler.
ReleaseWakeLock ==
  IF wakeLockRef # NULL
    THEN /\ wakeLocks' = wakeLocks \ {wakeLockRef}
         /\ wakeLockRef' = NULL
    ELSE UNCHANGED <<wakeLocks, wakeLockRef>>

\* The continuation of requestWakeLock: the request resolves with a new
\* sentinel, which the ref takes, or it rejects and the error is swallowed.
WakeLockSettles(granted) ==
  /\ wakeReqs > 0
  /\ wakeReqs' = wakeReqs - 1
  /\ IF granted
       THEN LET id == FreshId(wakeLocks \cup {wakeLockRef})
            IN /\ wakeLocks' = wakeLocks \cup {id}
               /\ wakeLockRef' = id
       ELSE UNCHANGED <<wakeLocks, wakeLockRef>>
  /\ last' = Event("wakeLockSettles", Bit(granted), Bit(isTracking), wakeLockRef)
  /\ UNCHANGED <<mounted, envVars, navVars, otherVars, routeVars, toast, isTracking, userMarkerRef,
                 accuracyCircleRef, watchIdRef, watches, fixes, fallbackTimeoutRef,
                 timers, kickstarts, sessions>>

\* -------------------------------------------------------------- tracking

\* clearTimeout(fallbackTimeoutRef.current) when the ref is set.
ClearTimer(tref, ts) == IF tref # NULL THEN ts \ {tref} ELSE ts

\* updateUserMarker: creates the marker and the circle, or moves them.
UpdateUserMarker(p) ==
  IF ~mapInstanceRef
    THEN UNCHANGED <<userMarkerRef, accuracyCircleRef, toast>>
    ELSE /\ userMarkerRef' = p
         /\ IF userMarkerRef = NULL
              THEN /\ accuracyCircleRef' = TRUE
                   /\ toast' = Toast("success", "found")
              ELSE UNCHANGED <<accuracyCircleRef, toast>>

\* startWatchingPosition(enableHighAccuracy), entered with timers `ts`
\* pending: clears the old watch and the old timer, arms the fallback timer
\* in high accuracy, and registers the new watch.
StartWatchingPosition_KeepsOldWatch(high, ts) ==
  IF ~hasGeolocation \/ ~mapInstanceRef
    THEN /\ timers' = ts
         /\ UNCHANGED <<watchIdRef, watches, fixes, fallbackTimeoutRef, toast>>
    ELSE LET ts1 == ClearTimer(fallbackTimeoutRef, ts)
             wid == FreshId(WatchIds)
             tid == FreshId(ts1)
         IN /\ watches' = watches \cup {[id |-> wid, high |-> high]}
            /\ watchIdRef' = wid
            /\ fixes' = fixes \ {wid}
            /\ timers' = IF high THEN ts1 \cup {tid} ELSE ts1
            /\ fallbackTimeoutRef' = IF high THEN tid ELSE NULL
            /\ toast' = Toast("info", IF high THEN "searchGps" ELSE "searchCell")

StartWatchingPosition(high, ts) ==
  IF ~hasGeolocation \/ ~mapInstanceRef
    THEN /\ timers' = ts
         /\ UNCHANGED <<watchIdRef, watches, fixes, fallbackTimeoutRef, toast>>
    ELSE LET ws1 == IF watchIdRef # NULL
                      THEN {w \in watches : w.id # watchIdRef} ELSE watches
             ts1 == ClearTimer(fallbackTimeoutRef, ts)
             wid == FreshId({w.id : w \in ws1})
             tid == FreshId(ts1)
         IN /\ watches' = ws1 \cup {[id |-> wid, high |-> high]}
            /\ watchIdRef' = wid
            /\ fixes' = fixes \ {watchIdRef, wid}
            /\ timers' = IF high THEN ts1 \cup {tid} ELSE ts1
            /\ fallbackTimeoutRef' = IF high THEN tid ELSE NULL
            /\ toast' = Toast("info", IF high THEN "searchGps" ELSE "searchCell")

\* stopTrackingInternal, without the toast its callers add.
StopTrackingInternal ==
  /\ watches' = IF watchIdRef # NULL
                  THEN {w \in watches : w.id # watchIdRef} ELSE watches
  /\ fixes' = fixes \ {watchIdRef}
  /\ watchIdRef' = NULL
  /\ timers' = ClearTimer(fallbackTimeoutRef, timers)
  /\ fallbackTimeoutRef' = NULL
  /\ userMarkerRef' = NULL
  /\ accuracyCircleRef' = FALSE
  /\ ReleaseWakeLock
  /\ isTracking' = FALSE

\* toggleTracking of the imperative handle.
ToggleTracking ==
  /\ mounted
  /\ IF isTracking
       THEN /\ StopTrackingInternal
            /\ toast' = Toast("info", "stopped")
            /\ last' = Event("stop", 0, wakeLockRef, wakeLocks)
            /\ UNCHANGED <<wakeReqs, kickstarts, sessions>>
       ELSE IF ~httpsOk
         THEN /\ toast' = Toast("error", "needHttps")
              /\ last' = Event("startRefused", 0, 0, 0)
              /\ UNCHANGED trackVars
       ELSE IF ~hasGeolocation
         THEN /\ toast' = Toast("error", "noGps")
              /\ last' = Event("startRefused", 1, 0, 0)
              /\ UNCHANGED trackVars
       ELSE /\ sessions < MaxSessions
            /\ sessions' = sessions + 1
            /\ isTracking' = TRUE
            /\ wakeReqs' = RequestWakeLock(wakeReqs)
            /\ kickstarts' = kickstarts + 1
            /\ StartWatchingPosition(TRUE, timers)
            /\ last' = Event("start", 0, 0, 0)
            /\ UNCHANGED <<userMarkerRef, accuracyCircleRef, wakeLockRef, wakeLocks>>
  /\ UNCHANGED <<mounted, envVars, navVars, otherVars, routeVars>>

\* The kickstart getCurrentPosition of toggleTracking calls back: with a
\* position p (the marker is set unless one exists), or with an error (p = NULL).
KickstartSettles(p) ==
  /\ kickstarts > 0
  /\ kickstarts' = kickstarts - 1
  /\ IF p # NULL /\ userMarkerRef = NULL
       THEN UpdateUserMarker(p)
       ELSE UNCHANGED <<userMarkerRef, accuracyCircleRef, toast>>
  /\ last' = Event("kickstart", 0, 0, 0)
  /\ UNCHANGED <<mounted, envVars, navVars, otherVars, routeVars, isTracking, watchIdRef, watches, fixes,
                 fallbackTimeoutRef, timers, wakeLockRef, wakeLocks, wakeReqs, sessions>>

\* The fallback timer armed by startWatchingPosition(true) fires.
OnFallbackTimeout(t) ==
  /\ IF userMarkerRef = NULL
       THEN StartWatchingPosition(FALSE, timers \ {t})
       ELSE /\ timers' = timers \ {t}
            /\ UNCHANGED <<watchIdRef, watches, fixes, fallbackTimeoutRef, toast>>
  /\ last' = Event("timerFired", t, Bit(watchIdRef \notin fixes), Bit(userMarkerRef # NULL))
  /\ UNCHANGED <<mounted, envVars, navVars, otherVars, routeVars, isTracking, userMarkerRef,
                 accuracyCircleRef, wakeLockRef, wakeLocks, wakeReqs, kickstarts, sessions>>

FallbackTimerFires == \E t \in timers : OnFallbackTimeout(t)

\* The success callback of watch w, with position p.
OnWatchSuccess_KeepsTimer(w, p) ==
  /\ UNCHANGED <<timers, fallbackTimeoutRef>>
  /\ UpdateUserMarker(p)
  /\ fixes' = fixes \cup {w.id}
  /\ last' = Event("watchSuccess", w.id, Bit(w.high), Bit(timers # {}))
  /\ UNCHANGED <<mounted, envVars, navVars, otherVars, routeVars, isTracking, watchIdRef, watches,
                 wakeLockRef, wakeLocks, wakeReqs, kickstarts, sessions>>

OnWatchSuccess_WaitsForRoute(w, p) ==
  /\ DOMAIN routes = {}
  /\ timers' = ClearTimer(fallbackTimeoutRef, timers)
  /\ fallbackTimeoutRef' = NULL
  /\ UpdateUserMarker(p)
  /\ fixes' = fixes \cup {w.id}
  /\ last' = Event("watchSuccess", w.id, Bit(w.high), Bit(timers # {}))
  /\ UNCHANGED <<mounted, envVars, navVars, otherVars, routeVars, isTracking, watchIdRef, watches,
                 wakeLockRef, wakeLocks, wakeReqs, kickstarts, sessions>>

OnWatchSuccess(w, p) ==
  /\ timers' = ClearTimer(fallbackTimeoutRef, timers)
  /\ fallbackTimeoutRef' = NULL
  /\ UpdateUserMarker(p)
  /\ fixes' = fixes \cup {w.id}
  /\ last' = Event("watchSuccess", w.id, Bit(w.high), Bit(timers # {}))
  /\ UNCHANGED <<mounted, envVars, navVars, otherVars, routeVars, isTracking, watchIdRef, watches,
                 wakeLockRef, wakeLocks, wakeReqs, kickstarts, sessions>>

WatchSuccess == \E w \in watches, p \in Positions : OnWatchSuccess(w, p)

\* The error callback of watch w, with error.code = code.  w.high is the
\* enableHighAccuracy its closure was created with.
OnWatchError_TimeoutIsFatal(w, code) ==
  /\ IF w.high
       THEN /\ StartWatchingPosition(FALSE, ClearTimer(fallbackTimeoutRef, timers))
            /\ UNCHANGED <<isTracking, userMarkerRef, accuracyCircleRef, wakeLockRef,
                           wakeLocks>>
       ELSE IF code \in {PERMISSION_DENIED, TIMEOUT}
         THEN /\ StopTrackingInternal
              /\ toast' = Toast("error", "permission")
         ELSE /\ timers' = ClearTimer(fallbackTimeoutRef, timers)
              /\ fallbackTimeoutRef' = NULL
              /\ UNCHANGED <<isTracking, userMarkerRef, accuracyCircleRef, wakeLockRef,
                             wakeLocks, watchIdRef, watches, fixes, toast>>
  /\ last' = Event("watchError", code, Bit(w.high), Bit(timers # {}))
  /\ UNCHANGED <<mounted, envVars, navVars, otherVars, routeVars, wakeReqs, kickstarts, sessions>>

OnWatchError_NoFallback(w, code) ==
  /\ IF code = PERMISSION_DENIED
       THEN /\ StopTrackingInternal
            /\ toast' = Toast("error", "permission")
       ELSE /\ timers' = timers
            /\ UNCHANGED <<fallbackTimeoutRef, isTracking, userMarkerRef,
                           accuracyCircleRef, wakeLockRef, wakeLocks, watchIdRef,
                           watches, fixes, toast>>
  /\ last' = Event("watchError", code, Bit(w.high), Bit(timers # {}))
  /\ UNCHANGED <<mounted, envVars, navVars, otherVars, routeVars, wakeReqs, kickstarts, sessions>>

OnWatchError(w, code) ==
  /\ IF w.high
       THEN \* the timer is cleared, then startWatchingPosition(false); return
            /\ StartWatchingPosition(FALSE, ClearTimer(fallbackTimeoutRef, timers))
            /\ UNCHANGED <<isTracking, userMarkerRef, accuracyCircleRef, wakeLockRef,
                           wakeLocks>>
       ELSE IF code = PERMISSION_DENIED
         THEN \* stopTrackingInternal(), then the error toast
              /\ StopTrackingInternal
              /\ toast' = Toast("error", "permission")
         ELSE /\ timers' = ClearTimer(fallbackTimeoutRef, timers)
              /\ fallbackTimeoutRef' = NULL
              /\ UNCHANGED <<isTracking, userMarkerRef, accuracyCircleRef, wakeLockRef,
                             wakeLocks, watchIdRef, watches, fixes, toast>>
  /\ last' = Event("watchError", code, Bit(w.high), Bit(timers # {}))
  /\ UNCHANGED <<mounted, envVars, navVars, otherVars, routeVars, wakeReqs, kickstarts, sessions>>

WatchError == \E w \in watches, code \in ErrorCodes : OnWatchError(w, code)

\* The isTracking that handleVisibilityChange reads: the effect that installs
\* the listener has no dependencies, so it is the first render's, false.
VisibilityIsTracking == FALSE

\* A visibilitychange event with document.visibilityState = 'visible'.
HandleVisibilityChange ==
  /\ mounted
  /\ wakeReqs' = IF VisibilityIsTracking THEN RequestWakeLock(wakeReqs) ELSE wakeReqs
  /\ last' = Event("visible", Bit(isTracking), wakeReqs, 0)
  /\ UNCHANGED <<mounted, envVars, navVars, otherVars, routeVars, toast, isTracking, userMarkerRef,
                 accuracyCircleRef, watchIdRef, watches, fixes, fallbackTimeoutRef,
                 timers, wakeLockRef, wakeLocks, kickstarts, sessions>>

\* The cleanup of the mount effect: the listener goes, stopTrackingInternal runs.
Unmount ==
  /\ mounted
  /\ mounted' = FALSE
  /\ StopTrackingInternal
  /\ last' = Event("unmount", 0, 0, 0)
  /\ UNCHANGED <<envVars, navVars, otherVars, routeVars, toast, wakeReqs, kickstarts, sessions>>

\* ---------------------------------------------------------------- routes

\* fetchWithRetry's default for `retries`.
DefaultRetries == 3

\* fetchWithRetry's test in its catch block: retry, or rethrow.
CanRetry(retries) == retries > 0

\* What one fetch of the routing URL can come to: the fetch rejects, the
\* status is not 2xx, or the response is ok and fetchWithRetry returns it.
FetchOutcomes == {"neterr", "status", "ok"}

\* What response.json() of a returned response can come to.  The body is a
\* route (code 'Ok', routes non-empty, a geometry Leaflet draws); the body
\* reports no route; response.json() rejects; or the body passes the test of
\* line 161 with a geometry that cannot be drawn: an object L.geoJSON rejects
\* (it throws at line 168), or no geometry at all (L.geoJSON builds an empty
\* layer, and fitBounds throws on its bounds at line 185).
JsonOutcomes == {"okRoute", "okNoRoute", "malformed", "badGeometry", "noGeometry"}

RouteIds == DOMAIN routes

\* A call enters, with locals r; a call returns, and its locals are gone.
Call(i, r) == [j \in RouteIds \cup {i} |-> IF j = i THEN r ELSE routes[j]]
Return(i) == [j \in RouteIds \ {i} |-> routes[j]]

LayerIds == {l.id : l \in mapLayers}
RemoveLayer(ref) == {l \in mapLayers : l.id # ref}

\* A drawRoute call at the point where it calls fetchWithRetry (first attempt).
Fetching(r, origin) ==
  [r EXCEPT !.origin = origin, !.pc = "fetch", !.retries = DefaultRetries,
            !.attempts = 1]

\* drawRoute(dest), from the click on a pin's route button, up to its first
\* await.  gen is the tracking session the call is issued under, 0 when
\* tracking is off.
DrawRoute(d) ==
  /\ mounted
  /\ IF ~mapInstanceRef
       THEN /\ last' = Event("drawRoute", 0, 0, 0)
            /\ UNCHANGED <<routes, toast>>
       ELSE LET r == [dest |-> d, origin |-> NULL, pc |-> "gps", retries |-> 0,
                      attempts |-> 0,
                      gen |-> IF isTracking THEN sessions ELSE 0]
                i == FreshId(RouteIds)
            IN /\ last' = Event("drawRoute", 0, 0, 0)
               /\ IF userMarkerRef # NULL
                    THEN /\ routes' = Call(i, Fetching(r, userMarkerRef))
                         /\ toast' = Toast("info", "calculating")
                    ELSE IF hasGeolocation /\ isTracking
                      THEN /\ routes' = Call(i, r)
                           /\ toast' = Toast("info", "calculating")
                      ELSE /\ routes' = Call(i, Fetching(r, SHOP_LOCATION))
                           /\ toast' = Toast("info", "usingShop")
  /\ UNCHANGED <<mounted, envVars, navVars, otherVars, trackVars, routeLayerRef, mapLayers>>

\* The getCurrentPosition drawRoute awaits settles: with a position p, or
\* with an error or timeout (p = NULL), and the shop is the origin.
RouteGpsSettles(i, p) ==
  /\ i \in RouteIds
  /\ routes[i].pc = "gps"
  /\ routes' = [routes EXCEPT
        ![i] = Fetching(@, IF p # NULL THEN p ELSE SHOP_LOCATION)]
  /\ toast' = IF p # NULL THEN toast ELSE Toast("info", "usingShop")
  /\ last' = Event("routeGps", 0, 0, 0)
  /\ UNCHANGED <<mounted, envVars, navVars, otherVars, trackVars, routeLayerRef, mapLayers>>

\* drawRoute's catch block (and finally), reached before the success branch:
\* the error toast, and the layers as they were.
\* why: "exhausted", "okNoRoute" or "malformed".
RouteFails(i, why) ==
  /\ routes' = Return(i)
  /\ UNCHANGED <<routeLayerRef, mapLayers>>
  /\ toast' = Toast("error", "routeFailed")
  /\ last' = Event("routeFailed", why, routes[i].attempts, routeLayerRef)

\* The catch block reached from inside the success branch.  The layer the ref
\* holds has left the map (164-166).  With "badGeometry" L.geoJSON throws
\* before the assignment of line 168 and the ref keeps the removed layer; with
\* "noGeometry" the empty layer (dest NULL: it draws nothing) is on the map
\* and in the ref when fitBounds throws.
RouteDrawFails(i, why) ==
  /\ routes' = Return(i)
  /\ LET removed == IF routeLayerRef # NULL THEN RemoveLayer(routeLayerRef)
                                            ELSE mapLayers
         id == FreshId(LayerIds \cup {routeLayerRef})
     IN IF why = "badGeometry"
          THEN /\ mapLayers' = removed
               /\ UNCHANGED routeLayerRef
          ELSE /\ mapLayers' = removed \cup {[id |-> id, dest |-> NULL]}
               /\ routeLayerRef' = id
  /\ toast' = Toast("error", "routeFailed")
  /\ last' = Event("routeFailed", why, routes[i].attempts, routeLayerRef)

\* drawRoute's success branch: the old layer leaves the map, the new one is
\* added and the ref takes it.
RouteDrawn_KeepsOld(i) ==
  /\ routes' = Return(i)
  /\ LET id == FreshId(LayerIds \cup {routeLayerRef})
     IN /\ mapLayers' = mapLayers \cup {[id |-> id, dest |-> routes[i].dest]}
        /\ routeLayerRef' = id
  /\ UNCHANGED toast
  /\ last' = Event("routeDrawn", routes[i].dest, routes[i].gen, routes[i].attempts)

RouteDrawn(i) ==
  /\ routes' = Return(i)
  /\ LET id == FreshId(LayerIds \cup {routeLayerRef})
     IN /\ mapLayers' = (IF routeLayerRef # NULL THEN RemoveLayer(routeLayerRef)
                                                 ELSE mapLayers)
                           \cup {[id |-> id, dest |-> routes[i].dest]}
        /\ routeLayerRef' = id
  /\ UNCHANGED toast
  /\ last' = Event("routeDrawn", routes[i].dest, routes[i].gen, routes[i].attempts)

\* One fetch of fetchWithRetry settles: fetchWithRetry goes on to its delay,
\* throws to drawRoute's catch, or returns the response, and drawRoute then
\* awaits response.json().
RouteFetchSettles(i, outcome) ==
  /\ i \in RouteIds
  /\ routes[i].pc = "fetch"
  /\ IF outcome \in {"neterr", "status"}
       THEN IF CanRetry(routes[i].retries)
              THEN /\ routes' = [routes EXCEPT ![i].pc = "delay"]
                   /\ last' = Event("routeRetry", 0, 0, 0)
                   /\ UNCHANGED <<routeLayerRef, mapLayers, toast>>
              ELSE RouteFails(i, "exhausted")
       ELSE /\ routes' = [routes EXCEPT ![i].pc = "json"]
            /\ last' = Event("routeResponse", 0, 0, 0)
            /\ UNCHANGED <<routeLayerRef, mapLayers, toast>>
  /\ UNCHANGED <<mounted, envVars, navVars, otherVars, trackVars>>

\* response.json() settles, and drawRoute runs to its end: the route is
\* drawn, or the catch block shows the error.
RouteJsonSettles(i, body) ==
  /\ i \in RouteIds
  /\ routes[i].pc = "json"
  /\ IF body = "okRoute"
       THEN RouteDrawn(i)
       ELSE IF body \in {"badGeometry", "noGeometry"}
         THEN RouteDrawFails(i, body)
         ELSE RouteFails(i, body)
  /\ UNCHANGED <<mounted, envVars, navVars, otherVars, trackVars>>

\* The delay of fetchWithRetry has passed: the next attempt is issued.
RouteRetryDelay_NoCount(i) ==
  /\ i \in RouteIds
  /\ routes[i].pc = "delay"
  /\ routes' = [routes EXCEPT ![i].pc = "fetch"]
  /\ last' = Event("routeAttempt", 0, 0, 0)
  /\ UNCHANGED <<mounted, envVars, navVars, otherVars, trackVars, routeLayerRef, mapLayers, toast>>

RouteRetryDelay(i) ==
  /\ i \in RouteIds
  /\ routes[i].pc = "delay"
  /\ routes' = [routes EXCEPT ![i].pc = "fetch", ![i].retries = @ - 1,
                              ![i].attempts = @ + 1]
  /\ last' = Event("routeAttempt", 0, 0, 0)
  /\ UNCHANGED <<mounted, envVars, navVars, otherVars, trackVars, routeLayerRef, mapLayers, toast>>

\* resetToShop of the imperative handle.
ResetToShop ==
  /\ mounted
  /\ IF mapInstanceRef /\ routeLayerRef # NULL
       THEN /\ mapLayers' = RemoveLayer(routeLayerRef)
            /\ routeLayerRef' = NULL
       ELSE UNCHANGED <<routeLayerRef, mapLayers>>
  /\ last' = Event("resetToShop", 0, 0, 0)
  /\ UNCHANGED <<mounted, envVars, navVars, otherVars, trackVars, routes, toast>>

\* ------------------------------------------------------------ navigation
\* The turn-by-turn instruction.  The component that computes it is not among
\* the sources at hand; this part follows the specification (4.1 and 4.4).

\* Points of a road, by their distance in metres from its start.
NavCoords == {10, 49, 50, 51}        \* where the device is reported
NavStepCoords == {50, 51, 150}       \* where the maneuvers of a route lie

\* Where the shop lies on the road: the origin of a route asked for before
\* any position has come in.
NavShop == 10

\* The urgency thresholds, in metres.
CriticalWithin == 40
WarningWithin == 100
ArrivalCriticalWithin == 50

\* distanceMeters, rounded to the metre, between two points of the road.
DistanceMeters(a, b) == IF a >= b THEN a - b ELSE b - a

\* nearestIndex: the first candidate at the least distance; 0 when there is none.
NearestIndex(point, candidates) ==
  IF candidates = << >> THEN 0
  ELSE CHOOSE i \in 1..Len(candidates) :
         \A j \in 1..Len(candidates) :
            /\ DistanceMeters(point, candidates[i]) <= DistanceMeters(point, candidates[j])
            /\ DistanceMeters(point, candidates[i]) = DistanceMeters(point, candidates[j])
                  => i <= j

\* The urgency tier of a maneuver distToTarget metres away.
Urgency_StrictBoundaries(distToTarget) ==
  IF distToTarget < CriticalWithin THEN "critical"
  ELSE IF distToTarget < WarningWithin THEN "warning"
  ELSE "normal"

Urgency(distToTarget) ==
  IF distToTarget <= CriticalWithin THEN "critical"
  ELSE IF distToTarget <= WarningWithin THEN "warning"
  ELSE "normal"

\* The instruction for a position against the steps of the active route.
Instruction_TargetsClosest(pos, steps) ==
  IF steps = << >> THEN [kind |-> "none"]
  ELSE LET closestStepIndex == NearestIndex(pos, steps)
           d == DistanceMeters(pos, steps[closestStepIndex])
       IN IF closestStepIndex < Len(steps)
            THEN [kind |-> "maneuver", target |-> closestStepIndex,
                  distance |-> d, urgency |-> Urgency(d)]
            ELSE [kind |-> "approaching", target |-> closestStepIndex,
                  distance |-> d,
                  urgency |-> IF d < ArrivalCriticalWithin THEN "critical"
                              ELSE "warning"]

Instruction(pos, steps) ==
  IF steps = << >> THEN [kind |-> "none"]
  ELSE LET closestStepIndex == NearestIndex(pos, steps)
       IN IF closestStepIndex < Len(steps)
            THEN LET distToTarget == DistanceMeters(pos, steps[closestStepIndex + 1])
                 IN [kind |-> "maneuver", target |-> closestStepIndex + 1,
                     distance |-> distToTarget, urgency |-> Urgency(distToTarget)]
            ELSE LET d == DistanceMeters(pos, steps[closestStepIndex])
                 IN [kind |-> "approaching", target |-> closestStepIndex,
                     distance |-> d,
                     urgency |-> IF d < ArrivalCriticalWithin THEN "critical"
                                 ELSE "warning"]

\* The step lists a route computation can deliver; the empty one is the
\* fallback route's.
\* The steps run from the origin toward the destination, so along the road.
StepLists ==
  {steps \in UNION {[1..n -> NavStepCoords] : n \in 0..MaxSteps} :
     \A i, j \in 1..Len(steps) : i < j => steps[i] <= steps[j]}

\* The drift from lastRouteCalcPosition, in metres, beyond which the route is
\* recomputed.
RerouteBeyond == 40

\* The reroute trigger of a position update.
ShouldReroute_Always(pos, lastCalc) == lastCalc # NULL

ShouldReroute(pos, lastCalc) ==
  /\ lastCalc # NULL
  /\ DistanceMeters(pos, lastCalc) > RerouteBeyond

\* A sequence without its k-th element.
RemoveAt(seq, k) == [i \in 1..(Len(seq) - 1) |-> IF i < k THEN seq[i] ELSE seq[i + 1]]

\* A route computation delivers its steps: they replace the active route's,
\* and the instruction derived from the old ones is dropped.
NavRouteComputed(steps) ==
  /\ navSteps' = steps
  /\ navInstruction' = [kind |-> "none"]
  /\ navLastCalc' = IF navPos # NULL THEN navPos ELSE NavShop
  /\ last' = Event("navRoute", Len(steps), 0, 0)
  /\ UNCHANGED <<mapViewerVars, otherVars, navPos, navReroutes, toast>>

\* A position update: the instruction is recomputed from it and the steps.
\* When it has drifted from lastRouteCalcPosition, one recomputation from the
\* new position is issued in the background.
NavPositionUpdate(pos) ==
  /\ navPos' = pos
  /\ navInstruction' = Instruction(pos, navSteps)
  /\ IF ShouldReroute(pos, navLastCalc)
       THEN /\ Len(navReroutes) < MaxReroutes
            /\ navReroutes' = Append(navReroutes, pos)
       ELSE UNCHANGED navReroutes
  /\ last' = Event("navPosition", pos, Len(navReroutes), navLastCalc)
  /\ UNCHANGED <<mapViewerVars, otherVars, navSteps, navLastCalc, toast>>

\* The k-th recomputation in flight completes: its steps replace the active
\* route's, and lastRouteCalcPosition becomes its origin.
NavRerouteCompletes(k, steps) ==
  /\ k \in 1..Len(navReroutes)
  /\ navReroutes' = RemoveAt(navReroutes, k)
  /\ navSteps' = steps
  /\ navInstruction' = [kind |-> "none"]
  /\ navLastCalc' = navReroutes[k]
  /\ last' = Event("navReroute", navReroutes[k], 1, 0)
  /\ UNCHANGED <<mapViewerVars, otherVars, navPos, toast>>

\* The k-th recomputation in flight fails: the active route stays in effect.
NavRerouteFails(k) ==
  /\ k \in 1..Len(navReroutes)
  /\ navReroutes' = RemoveAt(navReroutes, k)
  /\ last' = Event("navReroute", navReroutes[k], 0, 0)
  /\ UNCHANGED <<mapViewerVars, otherVars, navSteps, navPos,
                 navInstruction, navLastCalc, toast>>

\* ------------------------------------------------------------------- pins

\* The password the delete buttons compare the prompt's answer with.
DeletePassword == "198"
\* What prompt() can return: a text, or null when it is cancelled.
Cancelled == "null"
PromptResults == {DeletePassword, "1980", Cancelled}

\* The lines of a pasted text that carry coordinates: a name and a place.
RowA == [name |-> "A", loc |-> 1]
RowB == [name |-> "B", loc |-> 2]
Rows == {RowA, RowB}
\* A line handleParse skips: blank, or with no coordinates in it.
NoCoords == [name |-> "", loc |-> NULL]
\* The pasted texts, as the lines inputText.trim().split('\n') gives: one
\* row, two rows, a heading before a row, a blank line between two rows, and
\* a text with no coordinates at all.
Texts == {<<RowA>>, <<RowA, RowB>>, <<NoCoords, RowA>>, <<RowA, NoCoords, RowB>>,
          <<NoCoords>>}
\* The readings of Date.now().
Nows == {1, 2}

\* The id handleParse gives a line: `p-${Date.now()}-${index}`, index the
\* place of the line in the whole text, from 0.
PinId(t, index) == <<"p", t, index>>

\* handleParse's loop over the lines from line k on: a line without
\* coordinates is skipped and counted; Date.now() reads t up to line `split`
\* and t + 1 after it (the loop may cross a millisecond).
RECURSIVE ParsedFrom(_, _, _, _)
ParsedFrom(lines, k, t, split) ==
  IF k > Len(lines)
    THEN << >>
    ELSE (IF lines[k].loc = NULL
            THEN << >>
            ELSE <<[id |-> PinId(IF k <= split THEN t ELSE t + 1, k - 1),
                    name |-> lines[k].name, loc |-> lines[k].loc]>>)
         \o ParsedFrom(lines, k + 1, t, split)

ParsedPoints(lines, t, split) == ParsedFrom(lines, 1, t, split)

WithoutId(seq, id) == SelectSeq(seq, LAMBDA p : p.id # id)
Ids(seq) == {seq[i].id : i \in 1..Len(seq)}

handleDataParsed_Prepends(newPoints, append, confirmed) ==
  /\ points' = newPoints \o points
  /\ toast' = Toast("success", "appended")
handleDataParsed(newPoints, append, confirmed) ==
  IF Len(newPoints) = 0 /\ ~append
    THEN IF confirmed
           THEN /\ points' = << >>
                /\ toast' = Toast("info", "cleared")
           ELSE UNCHANGED <<points, toast>>
    ELSE IF append
           THEN /\ points' = points \o newPoints
                /\ toast' = Toast("success", "appended")
           ELSE /\ points' = newPoints
                /\ toast' = Toast("success", "replaced")

\* The pins the store holds after an import of these lines.
Imported(lines, append) ==
  Len(IF append THEN points ELSE << >>) + Len(ParsedPoints(lines, 1, 1))

\* DataInput: the import button over the pasted lines, in the mode the panel
\* is in; Date.now() reads t (any value: the wall clock may repeat or be set
\* back).  With no line that parses, handleParse alerts and calls nothing.
\* The handlers of App and of what it renders run while App is mounted, and
\* MapViewer is mounted as long as App is.  No overlay of App (the photo step,
\* the history viewer) disables the buttons under it.
HandleParse(lines, append, t, split) ==
  /\ mounted
  /\ split \in 1..Len(lines)
  /\ (IF split < Len(lines) THEN t + 1 ELSE t) \in Nows
  /\ LET parsedPoints == ParsedPoints(lines, t, split)
     IN IF Len(parsedPoints) > 0
          THEN /\ handleDataParsed(parsedPoints, append, FALSE)
               /\ last' = Event("import", Bit(append), 0, parsedPoints)
          ELSE /\ UNCHANGED <<points, toast>>
               /\ last' = Event("importNone", 0, 0, 0)
  /\ UNCHANGED <<outsideApp, history, finishingPoint, sheetReqs>>

\* DataInput: the clear-all button, and the answer to its confirmation.
ClearAll(confirmed) ==
  /\ mounted
  /\ handleDataParsed(<< >>, FALSE, confirmed)
  /\ last' = Event("clearAll", Bit(confirmed), 0, 0)
  /\ UNCHANGED <<outsideApp, history, finishingPoint, sheetReqs>>

handleDeletePoint(id) ==
  /\ points' = WithoutId(points, id)
  /\ toast' = Toast("info", "deleted")

\* MapViewer: the delete button of the popup of pin i, and the answer to
\* its password prompt.  The markers and their popups are built by the map
\* effect, which returns at its first line when Leaflet is not loaded: without
\* the map no popup button exists.
DeleteBtn_AnyText(i, password) ==
  /\ mounted
  /\ mapInstanceRef
  /\ i \in 1..Len(points)
  /\ IF password # Cancelled
       THEN handleDeletePoint(points[i].id)
       ELSE UNCHANGED <<points, toast>>
  /\ last' = Event("deletePin", password, 0, points[i].id)
  /\ UNCHANGED <<outsideApp, history, finishingPoint, sheetReqs>>
DeleteBtn(i, password) ==
  /\ mounted
  /\ mapInstanceRef
  /\ i \in 1..Len(points)
  /\ IF password = DeletePassword
       THEN handleDeletePoint(points[i].id)
       ELSE IF password # Cancelled
              THEN /\ toast' = Toast("error", "wrongPassword")
                   /\ UNCHANGED points
              ELSE UNCHANGED <<points, toast>>
  /\ last' = Event("deletePin", password, 0, points[i].id)
  /\ UNCHANGED <<outsideApp, history, finishingPoint, sheetReqs>>

\* MapViewer: the route button of the popup of pin i.
RouteBtn(i) ==
  /\ mapInstanceRef
  /\ i \in 1..Len(points)
  /\ DrawRoute(points[i].loc)

\* MapViewer: the finish button of the popup of pin i opens the photo step.
handleStartFinishJob(i) ==
  /\ mounted
  /\ mapInstanceRef
  /\ i \in 1..Len(points)
  /\ finishingPoint' = <<points[i]>>
  /\ last' = Event("startFinish", 0, 0, 0)
  /\ UNCHANGED <<outsideApp, points, history, sheetReqs, toast>>

\* The record handleConfirmFinishJob builds at time t.
DeliveryRecord(point, t) ==
  [id |-> <<"history", t>>, customerName |-> point.name, location |-> point.loc]

\* updateGoogleSheetStatus up to its await: nothing without a googleScriptUrl
\* in localStorage (url), else the request is sent.  Its "updating" toast is
\* replaced by the caller's toast within the same handler.
updateGoogleSheetStatus(url) ==
  sheetReqs' = IF url THEN sheetReqs + 1 ELSE sheetReqs

\* PhotoCapture: the photo is confirmed; Date.now() reads t (any value).
handleConfirmFinishJob(t, url) ==
  /\ mounted
  /\ finishingPoint # << >>
  /\ updateGoogleSheetStatus(url)
  /\ history' = Append(history, DeliveryRecord(finishingPoint[1], t))
  /\ points' = WithoutId(points, finishingPoint[1].id)
  /\ finishingPoint' = << >>
  /\ toast' = Toast("success", "finished")
  /\ last' = Event("finish", finishingPoint[1].name, 0, 0)
  /\ UNCHANGED <<outsideApp>>

\* The request of updateGoogleSheetStatus settles: sent (the response is
\* opaque and not read), or the fetch rejects and the catch block shows the
\* error.
SheetSettles(ok) ==
  /\ sheetReqs > 0
  /\ sheetReqs' = sheetReqs - 1
  /\ toast' = IF ok THEN toast ELSE Toast("error", "sheetFailed")
  /\ last' = Event("sheet", Bit(ok), 0, 0)
  /\ UNCHANGED <<outsideApp, points, history, finishingPoint>>

\* PhotoCapture: the photo step is cancelled.
CancelFinishJob ==
  /\ mounted
  /\ finishingPoint # << >>
  /\ finishingPoint' = << >>
  /\ last' = Event("cancelFinish", 0, 0, 0)
  /\ UNCHANGED <<outsideApp, points, history, sheetReqs, toast>>

\* ------------------------------------------------------------------- cart

\* The menu: one item with two options and one with none.
Menu ==
  {[id |-> 1, price |-> 50,
    options |-> <<[name |-> "size",
                   choices |-> <<[name |-> "S", priceModifier |-> 0],
                                 [name |-> "L", priceModifier |-> 10]>>],
                  [name |-> "spice",
                   choices |-> <<[name |-> "mild", priceModifier |-> 0]>>]>>],
   [id |-> 2, price |-> 30, options |-> << >>]}
Notes == {"", "x"}

\* An object Record<string, string> is its entries <<key, value>> in key order.
\* {...obj, [key]: value}: an own key keeps its place, a new key goes last.
SetKey(obj, key, value) ==
  IF \E i \in 1..Len(obj) : obj[i][1] = key
    THEN [i \in 1..Len(obj) |-> IF obj[i][1] = key THEN <<key, value>> ELSE obj[i]]
    ELSE Append(obj, <<key, value>>)

\* The object as a mapping: its entries without their order.
Entries(obj) == {obj[i] : i \in 1..Len(obj)}

\* JSON.stringify of the object: the keys and values one after the other, in
\* key order.
RECURSIVE Stringify(_)
Stringify(obj) ==
  IF obj = << >> THEN << >>
  ELSE <<obj[1][1], obj[1][2]>> \o Stringify(Tail(obj))

\* openItemModal's defaultOpts: the first choice of every option that has one.
RECURSIVE DefaultOpts(_)
DefaultOpts(options) ==
  IF options = << >> THEN << >>
  ELSE IF Len(Head(options).choices) > 0
    THEN <<<<Head(options).name, Head(options).choices[1].name>>>>
           \o DefaultOpts(Tail(options))
    ELSE DefaultOpts(Tail(options))

\* The price modifier of a chosen option, 0 when the item has no such choice.
Modifier(item, entry) ==
  LET found == {<<o, c>> \in (1..Len(item.options)) \X (1..2) :
                  /\ c <= Len(item.options[o].choices)
                  /\ item.options[o].name = entry[1]
                  /\ item.options[o].choices[c].name = entry[2]}
  IN IF found = {} THEN 0
     ELSE LET oc == CHOOSE x \in found : TRUE
          IN item.options[oc[1]].choices[oc[2]].priceModifier

RECURSIVE getPriceWithOptions(_, _)
getPriceWithOptions(item, selectedOpts) ==
  IF selectedOpts = << >> THEN item.price
  ELSE Modifier(item, Head(selectedOpts)) + getPriceWithOptions(item, Tail(selectedOpts))

\* What a handler of the cart and of the item modal leaves alone.
modalVars == <<selectedItem, tempQuantity, tempNote, tempSelectedOptions>>

\* While `loading` the component renders the spinner and nothing else; after
\* it, the menu is rendered whatever is open over it, the item modal while an
\* item is selected, the sticky bar under showStickyCart, and the cart sheet
\* (with the lines' buttons) while isCartOpen.

\* A click on an item of the menu.
openItemModal(item) ==
  /\ ~loading
  /\ selectedItem' = <<item>>
  /\ tempQuantity' = 1
  /\ tempNote' = ""
  /\ tempSelectedOptions' = DefaultOpts(item.options)
  /\ last' = Event("modal", 0, 0, 0)
  /\ UNCHANGED <<outsideCart, cart>>

closeItemModal ==
  /\ ~loading
  /\ selectedItem # << >>
  /\ selectedItem' = << >>
  /\ last' = Event("modal", 0, 0, 0)
  /\ UNCHANGED <<outsideCart, cart, tempQuantity, tempNote, tempSelectedOptions>>

\* The reset button of the modal: openItemModal of the open item.
resetModal ==
  /\ ~loading
  /\ selectedItem # << >>
  /\ tempQuantity' = 1
  /\ tempNote' = ""
  /\ tempSelectedOptions' = DefaultOpts(selectedItem[1].options)
  /\ last' = Event("modal", 0, 0, 0)
  /\ UNCHANGED <<outsideCart, cart, selectedItem>>

\* A radio button of option o of the open item: its choice c.
handleOptionChange(o, c) ==
  /\ ~loading
  /\ selectedItem # << >>
  /\ o \in 1..Len(selectedItem[1].options)
  /\ c \in 1..Len(selectedItem[1].options[o].choices)
  /\ tempSelectedOptions' = SetKey(tempSelectedOptions, selectedItem[1].options[o].name,
                                   selectedItem[1].options[o].choices[c].name)
  /\ last' = Event("modal", 0, 0, 0)
  /\ UNCHANGED <<outsideCart, cart, selectedItem, tempQuantity, tempNote>>

\* The note field and the quantity buttons of the modal.
SetTempNote(note) ==
  /\ ~loading
  /\ selectedItem # << >>
  /\ tempNote' = note
  /\ last' = Event("modal", 0, 0, 0)
  /\ UNCHANGED <<outsideCart, cart, selectedItem, tempQuantity, tempSelectedOptions>>

SetTempQuantity(delta) ==
  /\ ~loading
  /\ selectedItem # << >>
  /\ tempQuantity' = IF delta = 1 THEN tempQuantity + 1
                     ELSE IF tempQuantity - 1 >= 1 THEN tempQuantity - 1 ELSE 1
  /\ last' = Event("modal", 0, 0, 0)
  /\ UNCHANGED <<outsideCart, cart, selectedItem, tempNote, tempSelectedOptions>>

\* The index findIndex returns: the first line of the same item, note and
\* options string; 0 for -1.
ExistingIndex(lines, item, note, optionsKey) ==
  LET same == {i \in 1..Len(lines) :
                 /\ lines[i].id = item.id
                 /\ lines[i].note = note
                 /\ Stringify(lines[i].selectedOptions) = optionsKey}
  IN IF same = {} THEN 0 ELSE CHOOSE i \in same : \A j \in same : i <= j

LineKey(line) ==
  [id |-> line.id, note |-> line.note, options |-> Entries(line.selectedOptions)]

NewLine(item, price, quantity, note, selectedOptions) ==
  [id |-> item.id, price |-> price, quantity |-> quantity, note |-> note,
   selectedOptions |-> selectedOptions]

\* The cart confirmAddToCart would leave stays within the bounds.
AddFits ==
  /\ selectedItem # << >>
  /\ LET existingIndex == ExistingIndex(cart, selectedItem[1], tempNote,
                                        Stringify(tempSelectedOptions))
     IN IF existingIndex > 0
          THEN cart[existingIndex].quantity + tempQuantity <= MaxQuantity
          ELSE Len(cart) < MaxLines

confirmAddToCart_AlwaysAppends ==
  /\ ~loading
  /\ selectedItem # << >>
  /\ cart' = Append(cart, NewLine(selectedItem[1],
                                  getPriceWithOptions(selectedItem[1], tempSelectedOptions),
                                  tempQuantity, tempNote, tempSelectedOptions))
  /\ selectedItem' = << >>
  /\ last' = Event("addToCart",
                   LineKey(NewLine(selectedItem[1], 0, 0, tempNote, tempSelectedOptions)),
                   cart, tempQuantity)
  /\ UNCHANGED <<outsideCart, tempQuantity, tempNote, tempSelectedOptions>>

confirmAddToCart ==
  /\ ~loading
  /\ selectedItem # << >>
  /\ LET item == selectedItem[1]
         optionsKey == Stringify(tempSelectedOptions)
         finalUnitPrice == getPriceWithOptions(item, tempSelectedOptions)
         existingIndex == ExistingIndex(cart, item, tempNote, optionsKey)
     IN IF existingIndex > 0
          THEN cart' = [cart EXCEPT ![existingIndex].quantity = @ + tempQuantity,
                                    ![existingIndex].price = finalUnitPrice]
          ELSE cart' = Append(cart, NewLine(item, finalUnitPrice, tempQuantity,
                                            tempNote, tempSelectedOptions))
  /\ selectedItem' = << >>
  /\ last' = Event("addToCart",
                   LineKey(NewLine(selectedItem[1], 0, 0, tempNote, tempSelectedOptions)),
                   cart, tempQuantity)
  /\ UNCHANGED <<outsideCart, tempQuantity, tempNote, tempSelectedOptions>>

\* The button of the sticky bar opens the cart sheet; the sheet's own button
\* closes it.
OpenCart ==
  /\ ~loading
  /\ cart # << >> /\ ~isCartOpen /\ selectedItem = << >>
  /\ isCartOpen' = TRUE
  /\ last' = Event("cartSheet", 0, 0, 0)
  /\ UNCHANGED <<mapViewerVars, navVars, appVars, orderVars, printVars, toast, cart,
                 modalVars>>

CloseCart ==
  /\ ~loading
  /\ isCartOpen
  /\ isCartOpen' = FALSE
  /\ last' = Event("cartSheet", 0, 0, 0)
  /\ UNCHANGED <<mapViewerVars, navVars, appVars, orderVars, printVars, toast, cart,
                 modalVars>>

\* The buttons of a line of the cart sheet: the cross, the plus, and the minus,
\* which removes a line of quantity 1.
removeFromCart(index) ==
  /\ ~loading
  /\ isCartOpen
  /\ index \in 1..Len(cart)
  /\ cart' = RemoveAt(cart, index)
  /\ last' = Event("cartLine", 0, 0, 0)
  /\ UNCHANGED <<outsideCart, modalVars>>

updateQuantity(index, delta) ==
  /\ ~loading
  /\ isCartOpen
  /\ index \in 1..Len(cart)
  /\ cart' = [cart EXCEPT ![index].quantity =
                IF @ + delta > 0 THEN @ + delta ELSE @]
  /\ last' = Event("cartLine", 0, 0, 0)
  /\ UNCHANGED <<outsideCart, modalVars>>

MinusBtn(index) ==
  /\ ~loading
  /\ isCartOpen
  /\ index \in 1..Len(cart)
  /\ IF cart[index].quantity = 1 THEN removeFromCart(index)
                                 ELSE updateQuantity(index, -1)

\* ------------------------------------------------------------------ order

\* An entry of config.schedules: a day the shop is closed, a day with hours.
ClosedDay == [isClosed |-> TRUE, open |-> NoTime, close |-> NoTime]
HalfHour == [isClosed |-> FALSE, open |-> <<0, 30>>, close |-> <<1, 0>>]

\* The configurations the sheet can hold: the manual switch, the daily
\* schedules (<< >> when the sheet has none; else one place per weekday, << >>
\* for a day without entry) and the default hours.
Schedules ==
  {<< >>,
   <<<<ClosedDay>>, <<HalfHour>>>>,
   <<<<HalfHour>>, << >>>>}
Configs ==
  {[isManualClose |-> m, schedules |-> sch, openTime |-> oc[1], closeTime |-> oc[2]] :
     m \in BOOLEAN, sch \in Schedules, oc \in {<<NoTime, NoTime>>, <<<<1, 0>>, <<0, 30>>>>}}

\* 'HH:MM'.split(':').map(Number), then hours * 60 + minutes.
Mins(t) == t[1] * 60 + t[2]

\* The test of the hours, with closing before opening read as overnight.
WithinHours(currentMins, openMins, closeMins) ==
  IF closeMins < openMins
    THEN currentMins >= openMins \/ currentMins < closeMins
    ELSE currentMins >= openMins /\ currentMins < closeMins

\* config.schedules[dayIndex], << >> when there is none.
ScheduleOf(config, day) ==
  IF config.schedules = << >> THEN << >> ELSE config.schedules[day + 1]

\* The isOpen of getShopStatus(config) when new Date() reads t.
getShopStatus(config, t) ==
  LET schedule == ScheduleOf(config, t.day)
  IN IF config.isManualClose THEN FALSE
     ELSE IF schedule # << >> /\ schedule[1].isClosed THEN FALSE
     ELSE IF /\ schedule # << >>
             /\ schedule[1].open # NoTime
             /\ schedule[1].close # NoTime
       THEN WithinHours(Mins(t.time), Mins(schedule[1].open), Mins(schedule[1].close))
     ELSE IF config.openTime # NoTime /\ config.closeTime # NoTime
       THEN WithinHours(Mins(t.time), Mins(config.openTime), Mins(config.closeTime))
     ELSE TRUE

\* loadData of the mount effect: the sheet has answered, and new Date() reads
\* t.
LoadData(config, t) ==
  /\ loading
  /\ sheetConfig' = config
  /\ shopStatus' = getShopStatus(config, t)
  /\ loading' = FALSE
  /\ last' = Event("loadData", 0, 0, 0)
  /\ UNCHANGED <<outsideOrder, cart, isPrinterOnline, showConfirmModal,
                 isSavingOrder, orders, closeTimers>>

\* The one-minute interval, which runs from the mount on, re-reads the status
\* with what new Date() reads then.
StatusInterval(t) ==
  /\ shopStatus' = getShopStatus(sheetConfig, t)
  /\ last' = Event("interval", 0, 0, 0)
  /\ UNCHANGED <<outsideOrder, cart, loading, sheetConfig, isPrinterOnline,
                 showConfirmModal, isSavingOrder, orders, closeTimers>>

\* The health check of the print server has answered.
PrinterHealth(status) ==
  /\ status # isPrinterOnline
  /\ isPrinterOnline' = status
  /\ last' = Event("health", 0, 0, 0)
  /\ UNCHANGED <<outsideOrder, cart, loading, sheetConfig, shopStatus,
                 showConfirmModal, isSavingOrder, orders, closeTimers>>

\* The order button in the footer of the cart sheet, rendered while the cart
\* has a line and disabled while the shop status is closed.  formFilled: the
\* name, the phone and the slip are there.
sendToLine(formFilled) ==
  /\ ~loading
  /\ isCartOpen
  /\ cart # << >>
  /\ shopStatus
  /\ IF shopStatus /\ formFilled /\ cart # << >>
       THEN showConfirmModal' = TRUE
       ELSE UNCHANGED showConfirmModal
  /\ last' = Event("sendToLine", Bit(shopStatus), 0, 0)
  /\ UNCHANGED <<outsideOrder, cart, loading, sheetConfig, shopStatus,
                 isPrinterOnline, isSavingOrder, orders, closeTimers>>

\* The cross of the confirmation modal, which is rendered inside the cart
\* sheet.
CloseConfirmModal ==
  /\ ~loading
  /\ isCartOpen
  /\ showConfirmModal
  /\ showConfirmModal' = FALSE
  /\ last' = Event("closeConfirm", 0, 0, 0)
  /\ UNCHANGED <<outsideOrder, cart, loading, sheetConfig, shopStatus,
                 isPrinterOnline, isSavingOrder, orders, closeTimers>>

\* A call of handleOpenLine: what the shop status was when it was made, where
\* the call stands, and what it has done so far.
OrderCall(open, pc, saveCalls) ==
  [open |-> open, pc |-> pc, printer |-> isPrinterOnline, saveCalls |-> saveCalls,
   saveDone |-> FALSE, printCalls |-> 0, lineOpens |-> 0]

\* handleOpenLine, from the confirm button (disabled while isSavingOrder) up
\* to its first await.
handleOpenLine_NoGuard ==
  /\ ~loading
  /\ isCartOpen
  /\ showConfirmModal
  /\ ~isSavingOrder
  /\ isSavingOrder' = TRUE
  /\ orders' = Append(orders, OrderCall(shopStatus, "saving", 1))
  /\ UNCHANGED showConfirmModal
  /\ last' = Event("openLine", Bit(shopStatus), 0, 0)
  /\ UNCHANGED <<outsideOrder, cart, loading, sheetConfig, shopStatus,
                 isPrinterOnline, closeTimers>>

handleOpenLine ==
  /\ ~loading
  /\ isCartOpen
  /\ showConfirmModal
  /\ ~isSavingOrder
  /\ IF ~shopStatus
       THEN /\ showConfirmModal' = FALSE
            /\ orders' = Append(orders, OrderCall(FALSE, "stopped", 0))
            /\ UNCHANGED isSavingOrder
       ELSE /\ isSavingOrder' = TRUE
            /\ orders' = Append(orders, OrderCall(TRUE, "saving", 1))
            /\ UNCHANGED showConfirmModal
  /\ last' = Event("openLine", Bit(shopStatus), 0, 0)
  /\ UNCHANGED <<outsideOrder, cart, loading, sheetConfig, shopStatus,
                 isPrinterOnline, closeTimers>>

\* handleOpenLine's catch block, then finally: the alert, no LINE link and no
\* timer, and the button is enabled again.
OrderFails(i, call) ==
  /\ orders' = [orders EXCEPT ![i] = [call EXCEPT !.pc = "failed"]]
  /\ isSavingOrder' = FALSE
  /\ UNCHANGED closeTimers

\* The rest of handleOpenLine once nothing is left to await.  generateLineMessage
\* ends in encodeURIComponent, which throws on a text with a lone surrogate
\* (encodable FALSE): the catch block.  Else the LINE link is opened, the timer
\* that hides the modal is set, and finally re-enables the button.
OpensLine(i, call, encodable) ==
  IF encodable
    THEN /\ orders' = [orders EXCEPT ![i] = [call EXCEPT !.pc = "done",
                                                          !.lineOpens = @ + 1]]
         /\ closeTimers' = closeTimers + 1
         /\ isSavingOrder' = FALSE
    ELSE OrderFails(i, call)

\* What saveOrderToSheet resolves with (it never rejects): an object with
\* result 'success', any other object or primitive ("error"), or null, which
\* JSON.parse gives for the body "null" and on which result.result throws.
SaveResults == {"success", "error", "null"}

\* saveOrderToSheet settles.  orderNo: the result carries an order number.
SaveSettles(i, result, orderNo, encodable) ==
  /\ i \in 1..Len(orders)
  /\ orders[i].pc = "saving"
  /\ LET saved == [orders[i] EXCEPT !.saveDone = TRUE]
     IN IF result = "null"
          THEN OrderFails(i, saved)
          ELSE IF result = "success" /\ orderNo /\ orders[i].printer
            THEN /\ orders' = [orders EXCEPT ![i] = [saved EXCEPT !.pc = "printing",
                                                                  !.printCalls = @ + 1]]
                 /\ UNCHANGED <<closeTimers, isSavingOrder>>
            ELSE OpensLine(i, saved, encodable)
  /\ last' = Event("saveSettles", i, 0, 0)
  /\ UNCHANGED <<outsideOrder, cart, loading, sheetConfig, shopStatus,
                 isPrinterOnline, showConfirmModal>>

\* sendToPrintServer settles, one way or the other (a rejection is caught by
\* the inner try).
PrintSettles(i, encodable) ==
  /\ i \in 1..Len(orders)
  /\ orders[i].pc = "printing"
  /\ OpensLine(i, orders[i], encodable)
  /\ last' = Event("printSettles", i, 0, 0)
  /\ UNCHANGED <<outsideOrder, cart, loading, sheetConfig, shopStatus,
                 isPrinterOnline, showConfirmModal>>

\* The timer set after the LINE link was opened hides the modal.
ConfirmModalTimer ==
  /\ closeTimers > 0
  /\ closeTimers' = closeTimers - 1
  /\ showConfirmModal' = FALSE
  /\ last' = Event("modalTimer", 0, 0, 0)
  /\ UNCHANGED <<outsideOrder, cart, loading, sheetConfig, shopStatus,
                 isPrinterOnline, isSavingOrder, orders>>

\* ----------------------------------------------------------- print server

\* res.headersSent of job i.
HeadersSent(i) == printJobs[i].responses # << >>

\* The bodies of a POST /print: one with an order whose items are lines of
\* text; one whose order has an item that cannot be turned into a string (an
\* object with a toString that is no function); one without an order (or with
\* order null).
PrintBodies == {"order", "badLine", "noOrder"}

\* app.post('/print').  Without an order, order.orderId throws before any
\* socket is made, and Express answers 500.  Else the handler makes a socket,
\* starts to connect and registers the three callbacks.
PostPrint(body) ==
  /\ serverUp
  /\ printJobs' = Append(printJobs,
        IF body = "noOrder"
          THEN [body |-> body, socket |-> "none", connected |-> FALSE,
                errored |-> FALSE, responses |-> <<"failure">>]
          ELSE [body |-> body, socket |-> "connecting", connected |-> FALSE,
                errored |-> FALSE, responses |-> << >>])
  /\ last' = Event("postPrint", Len(printJobs) + 1, 0, 0)
  /\ UNCHANGED <<outsidePrint, serverUp>>

\* The connect callback: the lines are written and client.end() is called.
\* With a line that cannot be turned into a string, line + '\n' throws in the
\* callback: an uncaught exception, which ends the process with every request
\* that is still open unanswered.
SocketConnect(i) ==
  /\ serverUp
  /\ i \in 1..Len(printJobs)
  /\ printJobs[i].socket = "connecting"
  /\ ~printJobs[i].errored
  /\ IF printJobs[i].body = "badLine"
       THEN /\ printJobs' = [printJobs EXCEPT ![i].connected = TRUE]
            /\ serverUp' = FALSE
       ELSE /\ printJobs' = [printJobs EXCEPT ![i].socket = "ended",
                                              ![i].connected = TRUE]
            /\ UNCHANGED serverUp
  /\ last' = Event("socketConnect", i, 0, 0)
  /\ UNCHANGED outsidePrint

\* 'error': the socket fails, while connecting or after; a socket emits it
\* once, and before 'close'.  res.json throws once the headers are sent.
SocketError(i) ==
  /\ serverUp
  /\ i \in 1..Len(printJobs)
  /\ printJobs[i].socket \in {"connecting", "ended"}
  /\ ~printJobs[i].errored
  /\ printJobs' = [printJobs EXCEPT
        ![i].errored = TRUE,
        ![i].responses = IF HeadersSent(i) THEN @ ELSE Append(@, "failure")]
  /\ last' = Event("socketError", i, 0, 0)
  /\ UNCHANGED <<outsidePrint, serverUp>>

\* 'close': after an error, or after the connection that was ended.
SocketClose(i) ==
  /\ serverUp
  /\ i \in 1..Len(printJobs)
  /\ printJobs[i].socket \in {"connecting", "ended"}
  /\ printJobs[i].errored \/ printJobs[i].socket = "ended"
  /\ printJobs' = [printJobs EXCEPT
        ![i].socket = "closed",
        ![i].responses = IF HeadersSent(i) THEN @ ELSE Append(@, "success")]
  /\ last' = Event("socketClose", i, 0, 0)
  /\ UNCHANGED <<outsidePrint, serverUp>>

\* ------------------------------------------------------- specifications

\* The pins App restores from localStorage as it mounts: one pin, imported at
\* time 1.
StoredPoints == ParsedPoints(<<[name |-> "A", loc |-> 1]>>, 1, 1)

\* MapViewer mounted by App over the restored pin.
InitStored ==
  /\ InitMapViewer
  /\ InitStore
  /\ InitPrint
  /\ points = StoredPoints
  /\ history = << >>
  /\ finishingPoint = << >>
  /\ sheetReqs = 0

\* The tracking handlers.  The route handlers leave every tracking variable
\* unchanged, so what holds of the tracking variables here holds with the
\* route handlers interleaved.
NextTrack ==
  \/ ToggleTracking
  \/ \E p \in Positions \cup {NULL} : KickstartSettles(p)
  \/ FallbackTimerFires
  \/ WatchSuccess
  \/ WatchError
  \/ \E granted \in BOOLEAN : WakeLockSettles(granted)
  \/ HandleVisibilityChange
  \/ Unmount

SpecTrack == Init /\ [][NextTrack]_vars

\* The route handlers, up to MaxInFlight calls of drawRoute in flight, with
\* tracking started and stopped and positions delivered in between, by the
\* watch and by the kickstart request (drawRoute reads isTracking and the user
\* marker).
NextRoute ==
  \/ \E i \in 1..Len(points) : Cardinality(RouteIds) < MaxInFlight /\ RouteBtn(i)
  \/ \E i \in RouteIds, p \in Positions \cup {NULL} : RouteGpsSettles(i, p)
  \/ \E i \in RouteIds, outcome \in FetchOutcomes : RouteFetchSettles(i, outcome)
  \/ \E i \in RouteIds, body \in JsonOutcomes : RouteJsonSettles(i, body)
  \/ \E i \in RouteIds : RouteRetryDelay(i)
  \/ ResetToShop
  \/ (isTracking \/ sessions < MaxRouteSessions) /\ ToggleTracking
  \/ \E p \in Positions \cup {NULL} : KickstartSettles(p)
  \/ WatchSuccess

\* The wake lock plays no part in the routes: the device has the API.
InitRoute ==
  /\ InitStored
  /\ hasWakeLock

SpecRoute == InitRoute /\ [][NextRoute]_vars

\* The route handlers alone, tracking never started (every call takes the shop
\* as its origin), with up to MaxConcurrent calls of drawRoute in flight.
NextConcurrent ==
  \/ \E i \in 1..Len(points) : Cardinality(RouteIds) < MaxConcurrent /\ RouteBtn(i)
  \/ \E i \in RouteIds, outcome \in FetchOutcomes : RouteFetchSettles(i, outcome)
  \/ \E i \in RouteIds, body \in JsonOutcomes : RouteJsonSettles(i, body)
  \/ \E i \in RouteIds : RouteRetryDelay(i)
  \/ ResetToShop

SpecConcurrent == InitStored /\ [][NextConcurrent]_vars

\* The navigation instruction alone: routes are delivered and positions
\* handled in any order.
NextNav ==
  \/ \E steps \in StepLists : NavRouteComputed(steps)
  \/ \E pos \in NavCoords : NavPositionUpdate(pos)
  \/ \E k \in 1..Len(navReroutes), steps \in StepLists : NavRerouteCompletes(k, steps)
  \/ \E k \in 1..Len(navReroutes) : NavRerouteFails(k)

\* Navigation runs on a device where tracking can run: served over https,
\* with geolocation, and with the map built.
InitNav ==
  /\ Init
  /\ httpsOk
  /\ hasGeolocation
  /\ hasWakeLock
  /\ mapInstanceRef

SpecNav == InitNav /\ [][NextNav]_vars

\* The pins of App: imports, deletions and deliveries in any order, the
\* imports and the deletions also while the photo step is open.
NextPins ==
  \/ \E lines \in Texts, append \in BOOLEAN, t \in Nows, split \in 1..3 :
       Imported(lines, append) <= MaxPins /\ HandleParse(lines, append, t, split)
  \/ \E confirmed \in BOOLEAN : ClearAll(confirmed)
  \/ \E i \in 1..Len(points), password \in PromptResults : DeleteBtn(i, password)
  \/ \E i \in 1..Len(points) : handleStartFinishJob(i)
  \/ \E t \in Nows, url \in BOOLEAN :
       Len(history) < MaxHistory /\ handleConfirmFinishJob(t, url)
  \/ CancelFinishJob
  \/ \E ok \in BOOLEAN : SheetSettles(ok)

SpecPins == InitNav /\ [][NextPins]_vars

\* The pins with no delivery confirmed: imports and deletions in any order,
\* before, during and after a photo step that is opened and cancelled.
NextImport ==
  \/ \E lines \in Texts, append \in BOOLEAN, t \in Nows, split \in 1..3 :
       Imported(lines, append) <= MaxImported /\ HandleParse(lines, append, t, split)
  \/ \E confirmed \in BOOLEAN : ClearAll(confirmed)
  \/ \E i \in 1..Len(points), password \in PromptResults : DeleteBtn(i, password)
  \/ \E i \in 1..Len(points) : handleStartFinishJob(i)
  \/ CancelFinishJob

SpecImport == InitNav /\ [][NextImport]_vars

\* The cart of the storefront, from the mount on: the sheet answers (the cart
\* and the modal read nothing of its configuration), then the item modal, the
\* cart sheet and the buttons of its lines.
NextCart ==
  \/ \E t \in Clock : LoadData(NoConfig, t)
  \/ \E item \in Menu : openItemModal(item)
  \/ closeItemModal
  \/ resetModal
  \/ \E o \in 1..2, c \in 1..2 : handleOptionChange(o, c)
  \/ \E note \in Notes : SetTempNote(note)
  \/ \E delta \in {-1, 1} : tempQuantity + delta <= MaxAdd /\ SetTempQuantity(delta)
  \/ AddFits /\ confirmAddToCart
  \/ OpenCart
  \/ CloseCart
  \/ \E index \in 1..Len(cart) : removeFromCart(index)
  \/ \E index \in 1..Len(cart) :
       cart[index].quantity < MaxQuantity /\ updateQuantity(index, 1)
  \/ \E index \in 1..Len(cart) : MinusBtn(index)

SpecCart == InitNav /\ [][NextCart]_vars

\* The order flow of the storefront, with a cart that holds one line.
NextOrder ==
  \/ \E config \in Configs, t \in Clock : LoadData(config, t)
  \/ \E t \in Clock : StatusInterval(t)
  \/ \E status \in BOOLEAN : PrinterHealth(status)
  \/ OpenCart
  \/ CloseCart
  \/ \E formFilled \in BOOLEAN : sendToLine(formFilled)
  \/ CloseConfirmModal
  \/ Len(orders) < MaxOrders /\ handleOpenLine
  \/ \E i \in 1..Len(orders), result \in SaveResults, orderNo \in BOOLEAN,
        encodable \in BOOLEAN : SaveSettles(i, result, orderNo, encodable)
  \/ \E i \in 1..Len(orders), encodable \in BOOLEAN : PrintSettles(i, encodable)
  \/ ConfirmModalTimer

InitOrderFlow ==
  /\ InitMapViewer
  /\ httpsOk
  /\ hasGeolocation
  /\ hasWakeLock
  /\ mapInstanceRef
  /\ InitApp
  /\ InitOrder
  /\ InitPrint
  /\ cart = <<NewLine(CHOOSE item \in Menu : item.id = 2, 30, 1, "", << >>)>>
  /\ isCartOpen = FALSE
  /\ selectedItem = << >>
  /\ tempQuantity = 1
  /\ tempNote = ""
  /\ tempSelectedOptions = << >>

SpecOrder == InitOrderFlow /\ [][NextOrder]_vars

\* The print server: requests come in and the sockets' events interleave.
NextPrint ==
  \/ \E body \in PrintBodies : Len(printJobs) < MaxRequests /\ PostPrint(body)
  \/ \E i \in 1..Len(printJobs) : SocketConnect(i)
  \/ \E i \in 1..Len(printJobs) : SocketError(i)
  \/ \E i \in 1..Len(printJobs) : SocketClose(i)

SpecPrint == InitNav /\ [][NextPrint]_vars

\* Every handler of MapViewer, with MaxInFlightAll calls of drawRoute in flight
\* and tracking started MaxRouteSessions times:
\* tracking, the wake lock, the routes, and the route, finish and delete
\* buttons of a pin's popup.  The finish button hands the pin to App; the
\* photo step App then shows is App's own (SpecPins).
Next ==
  \/ (isTracking \/ sessions < MaxRouteSessions) /\ ToggleTracking
  \/ \E p \in Positions \cup {NULL} : KickstartSettles(p)
  \/ FallbackTimerFires
  \/ WatchSuccess
  \/ WatchError
  \/ \E granted \in BOOLEAN : WakeLockSettles(granted)
  \/ HandleVisibilityChange
  \/ Unmount
  \/ \E i \in 1..Len(points) : Cardinality(RouteIds) < MaxInFlightAll /\ RouteBtn(i)
  \/ \E i \in RouteIds, p \in Positions \cup {NULL} : RouteGpsSettles(i, p)
  \/ \E i \in RouteIds, outcome \in FetchOutcomes : RouteFetchSettles(i, outcome)
  \/ \E i \in RouteIds, body \in JsonOutcomes : RouteJsonSettles(i, body)
  \/ \E i \in RouteIds : RouteRetryDelay(i)
  \/ ResetToShop
  \/ \E i \in 1..Len(points) : handleStartFinishJob(i)
  \/ \E i \in 1..Len(points), password \in PromptResults : DeleteBtn(i, password)

Spec == InitStored /\ [][Next]_vars

\* ----------------------------------------------------------------- claims

\* C1: a route computation whose requests all fail issues exactly
\* 3 HTTP attempts and never a 4th.
C1_ThreeAttempts ==
  /\ \A i \in RouteIds : routes[i].attempts <= 3
  /\ (last.op = "routeFailed" /\ last.a = "exhausted") => last.b = 3

\* C2: when the attempts are exhausted, or the response is
\* malformed or reports no route, the computation leaves a (fallback) route
\* on the map, never no route at all.
C2_FallbackRoute ==
  last.op = "routeFailed" =>
    /\ routeLayerRef # NULL
    /\ \E l \in mapLayers : l.id = routeLayerRef

\* C3: after a permission-denied error of the watch, in either accuracy mode,
\* the session is torn down: no watch is registered, tracking is off, and an
\* error is shown.
C3_DeniedTearsDown ==
  (last.op = "watchError" /\ last.a = PERMISSION_DENIED) =>
    /\ watches = {}
    /\ watchIdRef = NULL
    /\ ~isTracking
    /\ toast.type = "error"

\* C4: when tracking is off and no wake lock request is pending, no watch is
\* registered, no fallback timer is pending and no wake lock is held.
C4_StoppedHoldsNothing ==
  (~isTracking /\ wakeReqs = 0) =>
    /\ watches = {}
    /\ timers = {}
    /\ wakeLocks = {}

\* C5: while tracking is off there is no user marker, no watch and no
\* fallback timer: no late callback has acted on the stopped session.
C5_NoLateCallback ==
  ~isTracking =>
    /\ userMarkerRef = NULL
    /\ watches = {}
    /\ timers = {}

\* C6: a route is drawn for a call issued under a tracking session only while
\* that session is still the current one.
C6_StaleRouteDiscarded ==
  (last.op = "routeDrawn" /\ last.b # 0) =>
    /\ isTracking
    /\ sessions = last.b

\* C7: when the fallback timer has fired and the watch had delivered no
\* position, the registered watch is a low accuracy one.
C7_TimerFallsBack ==
  (last.op = "timerFired" /\ last.b = 1) =>
    /\ watchIdRef # NULL
    /\ \A w \in watches : ~w.high

\* C8: once the watch has delivered a position no fallback timer is pending,
\* and the delivery leaves the watch and its accuracy mode as they were.
C8_FixCancelsTimer ==
  /\ \A w \in watches : w.id \in fixes => timers = {}
  /\ last.op = "watchSuccess" =>
        /\ timers = {}
        /\ fallbackTimeoutRef = NULL
        /\ watchIdRef = last.a
        /\ watches = {[id |-> last.a, high |-> (last.b = 1)]}

C8_Witness == last.op = "watchSuccess" /\ last.b = 1 /\ last.c = 1

\* C9: after a position-unavailable or timeout error in high accuracy the
\* only watch is a low accuracy one and no fallback timer is pending.
C9_HighErrorFallsBack ==
  (last.op = "watchError" /\ last.b = 1
     /\ last.a \in {POSITION_UNAVAILABLE, TIMEOUT}) =>
    /\ timers = {}
    /\ fallbackTimeoutRef = NULL
    /\ watchIdRef # NULL
    /\ watches = {[id |-> watchIdRef, high |-> FALSE]}

C9_Witness ==
  /\ last.op = "watchError"
  /\ last.b = 1
  /\ last.c = 1
  /\ last.a = TIMEOUT

\* C10: after a position-unavailable or timeout error, in either accuracy
\* mode, tracking is on and the watch the component holds is registered.
C10_TransientKeepsSession ==
  (last.op = "watchError" /\ last.a \in {POSITION_UNAVAILABLE, TIMEOUT}) =>
    /\ isTracking
    /\ watchIdRef # NULL
    /\ \E w \in watches : w.id = watchIdRef

C10_Witness ==
  /\ last.op = "watchError"
  /\ last.b = 0
  /\ last.a = POSITION_UNAVAILABLE
  /\ isTracking

\* C11: when the page becomes visible again while tracking is on (and the
\* browser has the wake lock API), the handler requests the wake lock: one
\* more request is pending than before the event.
C11_VisibleRequestsWakeLock ==
  (last.op = "visible" /\ last.a = 1 /\ hasWakeLock) => wakeReqs = last.b + 1

\* C12: a wake lock request granted while the component holds a lock acquires
\* no second lock and leaves the held one in place, and stopping while no
\* lock is held releases nothing.
C12_WakeLockIdempotent ==
  /\ (last.op = "wakeLockSettles" /\ last.a = 1 /\ last.c # NULL) =>
        /\ wakeLockRef = last.c
        /\ wakeLocks = {last.c}
  /\ (last.op = "stop" /\ last.b = NULL) =>
        /\ wakeLockRef = NULL
        /\ wakeLocks = last.c

\* C13: at every moment at most one watchPosition subscription is registered,
\* and it is the one the component holds in watchIdRef.
C13_OneSubscription ==
  /\ Cardinality(watches) <= 1
  /\ \A w \in watches : w.id = watchIdRef

C13_Witness ==
  /\ last.op = "watchError"
  /\ last.b = 1
  /\ sessions = 2
  /\ Cardinality(watches) = 1

\* C14: at every moment at most one route layer is on the map, and it is the
\* one routeLayerRef holds, whatever the order in which the calls of drawRoute
\* in flight return and resetToShop runs; the step that draws a route leaves
\* that route alone on the map.
C14_OneRouteLive ==
  /\ [](/\ Cardinality(mapLayers) <= 1
        /\ LayerIds \subseteq {routeLayerRef})
  /\ [][last'.op = "routeDrawn" =>
          mapLayers' = {[id |-> routeLayerRef', dest |-> last'.a]}]_vars

\* A route has just replaced an earlier one (the layer ids are handed out in
\* order) while another call was in flight.
C14_Witness ==
  /\ last.op = "routeDrawn"
  /\ routeLayerRef = 2
  /\ RouteIds # {}

\* C15: after tracking is stopped, and after resetToShop, no route is on the
\* map and routeLayerRef holds none.
C15_StopAndResetClearRoute ==
  last.op \in {"stop", "resetToShop"} =>
    /\ routeLayerRef = NULL
    /\ mapLayers = {}

\* C16: the step in which a route computation fails (attempts exhausted, or
\* a response that carries no route that can be drawn) changes neither the
\* route layer on the map nor routeLayerRef.
C16_FailureKeepsRoute ==
  [][last'.op = "routeFailed" => UNCHANGED <<routeLayerRef, mapLayers>>]_vars

\* C17: while a call of drawRoute is in flight, whatever it is waiting for
\* (the position, a fetch, a retry delay, the body), the success callback of
\* every registered watch can run with any position; when it runs the user
\* marker takes that position, and the calls in flight are left as they are.
C17_PositionsKeepFlowing ==
  /\ [](RouteIds # {} =>
          \A w \in watches, p \in Positions : ENABLED OnWatchSuccess(w, p))
  /\ [][\A w \in watches, p \in Positions :
          (RouteIds # {} /\ OnWatchSuccess(w, p)) =>
             /\ userMarkerRef' = p
             /\ routes' = routes]_vars

\* A call took the marker's position as its origin (no toast has followed its
\* "calculating", so the marker was there all along), and during its retry
\* delay a position of the watch has moved the marker to another place.
C17_Witness ==
  /\ last.op = "watchSuccess"
  /\ toast = Toast("info", "calculating")
  /\ \E i \in RouteIds :
        /\ routes[i].pc = "delay"
        /\ routes[i].origin \in Positions
        /\ userMarkerRef \in Positions \ {routes[i].origin}

\* The steps a call of drawRoute can take: one of its awaits settles.
C18_Progress(i) ==
  \/ \E p \in Positions \cup {NULL} : RouteGpsSettles(i, p)
  \/ \E outcome \in FetchOutcomes : RouteFetchSettles(i, outcome)
  \/ \E body \in JsonOutcomes : RouteJsonSettles(i, body)
  \/ RouteRetryDelay(i)

\* A bound on the steps a call with locals r has left: every fetch may be
\* followed by a delay and another fetch as long as retries are left, and the
\* last fetch by the reading of the body.
C18_Rank(r) ==
  IF r.pc = "gps" THEN 2 * DefaultRetries + 3
  ELSE IF r.pc = "fetch" THEN 2 * r.retries + 2
  ELSE IF r.pc = "delay" THEN 2 * r.retries + 1
  ELSE 1

\* C18: a call of drawRoute in flight is never stuck (the await it is at can
\* settle), every step it takes brings it strictly closer to its return, so
\* it returns after a bounded number of attempts once its requests settle,
\* and it returns in one of two ways: the route is on the map, or the error
\* message is shown.  No third exit (an exception to the caller) exists.
C18_RouteTerminates ==
  /\ [](\A i \in RouteIds :
          /\ C18_Rank(routes[i]) \in 1..(2 * DefaultRetries + 3)
          /\ ENABLED C18_Progress(i))
  /\ [][\A i \in RouteIds :
          /\ (i \in RouteIds' /\ routes'[i] # routes[i]) =>
                C18_Rank(routes'[i]) < C18_Rank(routes[i])
          /\ i \notin RouteIds' =>
                \/ /\ last'.op = "routeDrawn"
                   /\ routeLayerRef' \in LayerIds'
                \/ /\ last'.op = "routeFailed"
                   /\ toast' = Toast("error", "routeFailed")]_vars

\* A call that waited for the position and used every attempt has returned.
C18_Witness ==
  /\ last.op = "routeFailed"
  /\ last.a = "exhausted"
  /\ last.b = DefaultRetries + 1
  /\ isTracking
  /\ userMarkerRef = NULL
  /\ RouteIds = {}

\* C19: the urgency of a maneuver instruction follows from its distance as
\* displayed, which is the distance from the position to the target step:
\* critical up to 40 m, warning above 40 m and up to 100 m, normal above 100 m.
C19_UrgencyTiers ==
  (last.op = "navPosition" /\ navInstruction.kind = "maneuver") =>
    LET d == navInstruction.distance
    IN /\ d = DistanceMeters(navPos, navSteps[navInstruction.target])
       /\ d <= 40 => navInstruction.urgency = "critical"
       /\ (d > 40 /\ d <= 100) => navInstruction.urgency = "warning"
       /\ d > 100 => navInstruction.urgency = "normal"

\* A maneuver 41 m away: the first distance past the critical tier.
C19_Witness ==
  /\ last.op = "navPosition"
  /\ navInstruction.kind = "maneuver"
  /\ navInstruction.distance = 41
  /\ navInstruction.urgency = "warning"

\* C20: after a position update with steps at hand, the instruction targets
\* the step after the first closest step; when the closest step is the last
\* one, it is the approaching-destination instruction.
C20_TargetsStepAfterClosest ==
  (last.op = "navPosition" /\ navSteps # << >>) =>
    \E c \in 1..Len(navSteps) :
      /\ \A j \in 1..Len(navSteps) :
            DistanceMeters(navPos, navSteps[c]) <= DistanceMeters(navPos, navSteps[j])
      /\ \A j \in 1..(c - 1) :
            DistanceMeters(navPos, navSteps[c]) < DistanceMeters(navPos, navSteps[j])
      /\ IF c < Len(navSteps)
            THEN /\ navInstruction.kind = "maneuver"
                 /\ navInstruction.target = c + 1
            ELSE navInstruction.kind = "approaching"

\* The position is exactly at the second of three steps, and the third is
\* the target.
C20_Witness ==
  /\ last.op = "navPosition"
  /\ Len(navSteps) = 3
  /\ navPos = navSteps[2]
  /\ navSteps[1] # navPos
  /\ navInstruction.kind = "maneuver"
  /\ navInstruction.target = 3

\* C21: with a route active, a position update more than 40 m from
\* lastRouteCalcPosition (41 m, say) issues exactly one recomputation, from
\* the new position, and one within 40 m (39 m, say) issues none; when a
\* recomputation completes, lastRouteCalcPosition is the position it was
\* issued from.
C21_RerouteTrigger ==
  /\ (last.op = "navPosition" /\ last.c # NULL) =>
        IF DistanceMeters(last.a, last.c) >= 41
          THEN /\ Len(navReroutes) = last.b + 1
               /\ navReroutes[Len(navReroutes)] = last.a
          ELSE /\ DistanceMeters(last.a, last.c) <= 40
               /\ Len(navReroutes) = last.b
  /\ (last.op = "navReroute" /\ last.b = 1) => navLastCalc = last.a

\* A position 41 m from lastRouteCalcPosition has just been handled.
C21_Witness ==
  /\ last.op = "navPosition"
  /\ last.c # NULL
  /\ DistanceMeters(last.a, last.c) = 41
  /\ navReroutes = <<last.a>>

\* C22: an import follows the flag it is given. With append, the pins are
\* the previous pins in their order followed by the imported pins in their
\* order; with replace and a non-empty import, the pins are exactly the
\* imported sequence.
C22_ImportFollowsFlag ==
  [][last'.op = "import" =>
       /\ last'.c # << >>
       /\ IF last'.a = 1
            THEN points' = points \o last'.c
            ELSE points' = last'.c]_vars

\* Two pins were there, the photo step of one of them is open, and a third
\* pin has just been appended behind them.
C22_Witness ==
  /\ last.op = "import"
  /\ last.a = 1
  /\ Len(last.c) = 1
  /\ Len(points) = 3
  /\ points[1].name = "A"
  /\ points[2].name = "B"
  /\ points[3] = last.c[1]
  /\ finishingPoint # << >>

\* C23: confirming the photo appends exactly one history record, with the
\* finished pin's name and coordinates, and removes that pin from the active
\* pins; every pin that leaves the active pins at the confirmation has its
\* name and coordinates in that record, and the other pins stay as they were.
\* Cancelling the photo step changes neither collection.
C23_FinishMovesToHistory ==
  [][/\ last'.op = "finish" =>
          /\ Len(history') = Len(history) + 1
          /\ SubSeq(history', 1, Len(history)) = history
          /\ history'[Len(history')].customerName = finishingPoint[1].name
          /\ history'[Len(history')].location = finishingPoint[1].loc
          /\ \A k \in 1..Len(points') : points'[k] # finishingPoint[1]
          /\ points' = SelectSeq(points,
                          LAMBDA p : \E k \in 1..Len(points') : points'[k] = p)
          /\ \A k \in 1..Len(points) :
               (\A n \in 1..Len(points') : points'[n] # points[k]) =>
                 /\ points[k].name = history'[Len(history')].customerName
                 /\ points[k].loc = history'[Len(history')].location
     /\ last'.op = "cancelFinish" => UNCHANGED <<points, history>>]_vars

\* C24: the delete button removes a pin only when the prompt's answer is the
\* password; a wrong answer or a cancelled prompt leaves the pins as they
\* were, and the right answer removes only the pins with the chosen id.
C24_DeleteNeedsPassword ==
  [][last'.op = "deletePin" =>
       IF last'.a = DeletePassword
         THEN /\ points' = WithoutId(points, last'.c)
              /\ \A i \in 1..Len(points) :
                   points[i].id # last'.c => points[i].id \in Ids(points')
         ELSE points' = points]_vars

\* A pin has been deleted with the password while the photo step of another
\* pin was open, and that other pin is still there.
C24_Witness ==
  /\ last.op = "deletePin"
  /\ last.a = DeletePassword
  /\ last.c \notin Ids(points)
  /\ toast = Toast("info", "deleted")
  /\ finishingPoint # << >>
  /\ finishingPoint[1].id \in Ids(points)

\* C25: the active pins have pairwise distinct ids, so a deletion or a
\* completed delivery removes exactly one pin.
C25_DistinctIds ==
  /\ \A i, j \in 1..Len(points) : i # j => points[i].id # points[j].id
  /\ finishingPoint # << >> =>
       Cardinality({i \in 1..Len(points) : points[i].id = finishingPoint[1].id}) = 1

\* C26: the route on the map reflects the latest route action, whatever the
\* order of the responses.  In particular: when resetToShop was the latest
\* action and the last request in flight then settles, no route is displayed.
C26_LatestActionWins ==
  [][(/\ last.op = "resetToShop"
      /\ last'.op \in {"routeDrawn", "routeFailed"}
      /\ DOMAIN routes' = {})
       => routeLayerRef' = NULL]_vars

\* C28: from an empty cart on, no two cart lines share the item id, the note
\* and the selected options; adding an item that matches a line raises that
\* line's quantity by the added amount and adds no line.
C28_CartLinesDistinct ==
  /\ \A i, j \in 1..Len(cart) : i # j => LineKey(cart[i]) # LineKey(cart[j])
  /\ last.op = "addToCart" =>
       IF \E k \in 1..Len(last.b) : LineKey(last.b[k]) = last.a
         THEN /\ Len(cart) = Len(last.b)
              /\ \A k \in 1..Len(last.b) :
                   cart[k].quantity = last.b[k].quantity +
                     (IF LineKey(last.b[k]) = last.a THEN last.c ELSE 0)
         ELSE /\ Len(cart) = Len(last.b) + 1
              /\ LineKey(cart[Len(cart)]) = last.a
              /\ cart[Len(cart)].quantity = last.c

C28_Witness ==
  /\ last.op = "addToCart"
  /\ Len(last.b) = 2
  /\ LineKey(last.b[2]) = last.a
  /\ Cardinality(last.a.options) = 2
  /\ last.c = 2
  /\ cart[2].quantity = 3

\* C29: no order is submitted while the shop is closed.  A confirmation made
\* with the shop status closed saves nothing, prints nothing and opens no
\* LINE link; the save is called only by a confirmation that found the shop
\* open, and the LINE link is opened only after the save has settled.
C29_NoOrderWhileClosed ==
  \A i \in 1..Len(orders) :
    /\ ~orders[i].open =>
         /\ orders[i].saveCalls = 0
         /\ orders[i].printCalls = 0
         /\ orders[i].lineOpens = 0
    /\ orders[i].saveCalls > 0 => orders[i].open
    /\ orders[i].printCalls > 0 => orders[i].saveDone
    /\ orders[i].lineOpens > 0 => orders[i].saveDone

C29_Witness ==
  /\ Len(orders) = 2
  /\ orders[1].open
  /\ orders[1].printCalls = 1
  /\ orders[1].lineOpens = 1
  /\ ~orders[2].open
  /\ orders[2].pc = "stopped"
  /\ ~showConfirmModal

\* C30: every POST /print gets exactly one response, whatever the order of
\* the socket's connect, error and close events: never two, one once the
\* socket has closed, a failure if the socket erred and a success otherwise.
C30_OneResponse ==
  \A i \in 1..Len(printJobs) :
    /\ Len(printJobs[i].responses) <= 1
    /\ printJobs[i].socket = "closed" => Len(printJobs[i].responses) = 1
    /\ printJobs[i].errored => printJobs[i].responses = <<"failure">>
    /\ ~printJobs[i].errored => printJobs[i].responses \in {<< >>, <<"success">>}

====
